---- MODULE Spec2Model ----
\* A model of the DHT facade of lbry.go (package dht): New, init, join, listen,
\* FindNode and Run, together with the components they drive (Routing Table,
\* Peers Manager, Token Manager, Transaction Manager, packet handler), whose
\* own source is not part of the tree and is modelled from the design text.
EXTENDS Integers, Sequences, FiniteSets, TLC

\* ---------------------------------------------------------------- bounds
\* Config values (scaled down) and caps on the environment.
K == 1
PacketJobLimit == 1
PacketWorkerLimit == 1
MaxTransactionCursor == 2
NumPrimeNodes == 2
NodeIDLength == 1
MaxDatagrams == 2
MaxFresh == 1
MaxStored == 1
MaxReadErrs == 1
IDBits == 2

\* Config.Try: the attempts a query gets
Try == 2

\* the poll budget of FindNode: `i >= 30`
PollLimitMut == 30 + 1
PollLimit == 30

Nil == "nil"
\* the remote endpoints
Addrs == {1, 2}
\* Config.PrimeNodes: the configured addresses; the i-th one, when it
\* resolves, resolves to one of the remote endpoints
PrimeNodes == [i \in 1 .. NumPrimeNodes |-> ((i - 1) % Cardinality(Addrs)) + 1]

\* ---------------------------------------------------------------- keys
\* A Go string is a sequence of bytes (0..255).
Fill(n, b) == [i \in 1 .. n |-> b]
\* byte values used in raw keys: 'a' (itself a hex digit) and 0xab
ByteSample == {97, 171}
\* dht.node.id.RawString(): the local node's own identifier
SelfID == Fill(NodeIDLength, 1)
RawKeys == {Fill(NodeIDLength, b) : b \in ByteSample}
\* a random identifier, as routingTable.Fresh draws one
RandomID == Fill(NodeIDLength, 2)

\* encoding/hex: "0123456789abcdef"
HexTable == <<48, 49, 50, 51, 52, 53, 54, 55, 56, 57, 97, 98, 99, 100, 101, 102>>
\* hex.EncodeToString
HexEncode(s) ==
  [i \in 1 .. 2 * Len(s) |->
     IF i % 2 = 1 THEN HexTable[(s[(i + 1) \div 2] \div 16) + 1]
                  ELSE HexTable[(s[i \div 2] % 16) + 1]]
\* hex.EncodeToString followed by strings.ToUpper
UpperChar(c) == IF c >= 97 /\ c <= 122 THEN c - 32 ELSE c
HexEncodeUpper(s) == [i \in 1 .. 2 * Len(s) |-> UpperChar(HexEncode(s)[i])]
\* encoding/hex fromHexChar: the value of a hex digit, or -1
FromHexCharMut(c) ==
  IF c >= 48 /\ c <= 57 THEN c - 48
  ELSE IF c >= 97 /\ c <= 102 THEN c - 97
  ELSE IF c >= 65 /\ c <= 70 THEN c - 65
  ELSE -1
FromHexChar(c) ==
  IF c >= 48 /\ c <= 57 THEN c - 48
  ELSE IF c >= 97 /\ c <= 102 THEN c - 97 + 10
  ELSE IF c >= 65 /\ c <= 70 THEN c - 65 + 10
  ELSE -1
\* hex.DecodeString: [ok, data]
DecodeString(s) ==
  IF Len(s) % 2 = 1 \/ \E i \in 1 .. Len(s) : FromHexChar(s[i]) = -1
  THEN [ok |-> FALSE, data |-> <<>>]
  ELSE [ok |-> TRUE,
        data |-> [i \in 1 .. Len(s) \div 2 |->
                    FromHexChar(s[2 * i - 1]) * 16 + FromHexChar(s[2 * i])]]
\* FindNode's key normalisation: a key of twice the identifier length is hex
IsHexLenMut(key) == Len(key) = NodeIDLength
IsHexLen(key) == Len(key) = NodeIDLength * 2
Normalize(key) ==
  IF IsHexLen(key)
  THEN LET d == DecodeString(key) IN
       IF d.ok THEN [err |-> Nil, key |-> d.data] ELSE [err |-> "hex", key |-> key]
  ELSE [err |-> Nil, key |-> key]

\* keys of twice the identifier length that are not hex: a final 'g', and 0xab bytes
BadHexKeys ==
  {[i \in 1 .. 2 * NodeIDLength |-> IF i = 2 * NodeIDLength THEN 103 ELSE 97],
   Fill(2 * NodeIDLength, 171)}
\* keys of any other length pass through unchanged
OtherKeys == {<<>>, Fill(2 * NodeIDLength + 1, 97)}
\* the arguments FindNode is called with
FindKeys ==
  RawKeys \cup {HexEncode(r) : r \in RawKeys} \cup {HexEncodeUpper(r) : r \in RawKeys}
    \cup BadHexKeys \cup OtherKeys

\* ---------------------------------------------------------------- state
VARIABLES
  runPc,               \* where Run is: "new", "init", "listen", "join", "ready",
                       \* "loop", "handle", "rejoin", "panic"
  joinIdx,             \* join's position in PrimeNodes
  joinLog,             \* the current join pass: addresses tried, resolved, queried
  joined,              \* the first join pass has returned
  built,               \* the component fields of dht that are not nil
  routingTable,        \* dht.routingTable: its buckets, [lo, hi, nodes]
  peersManager,        \* dht.peersManager: the set of [key, peer] stored
  tokenManager,        \* dht.tokenManager: the tokens held, [addr, value, expired]
  transactionManager,  \* dht.transactionManager: [cursor, pending]
  sweeps,              \* background tasks started by init
  Ready,               \* dht.Ready
  listenPc,            \* the socket-read task: "off", "read", "send"
  cur,                 \* the packet the socket-read task is about to enqueue
  received,            \* datagrams read so far
  readErrs,            \* reads that returned an error so far
  buff,                \* buff: the datagram whose bytes the read buffer holds
  packets,             \* dht.packets: the buffered channel's contents
  pkt,                 \* the packet the main loop has dequeued
  workerTokens,        \* len(dht.workerTokens)
  workers,             \* packets being decoded and dispatched
  freshTasks,          \* routingTable.Fresh tasks started and not yet run
  fn,                  \* the FindNode call
  last                 \* the datagram dispatched last, as SpecMgr observes it

vars ==
  <<runPc, joinIdx, joinLog, joined, built, routingTable, peersManager, tokenManager,
    transactionManager, sweeps, Ready, listenPc, cur, received, readErrs, buff,
    packets, pkt, workerTokens, workers, freshTasks, fn, last>>

dhtVars == <<built, routingTable, peersManager, tokenManager, transactionManager, sweeps>>
runVars == <<runPc, joinIdx, joinLog, joined, Ready, freshTasks>>
netVars == <<listenPc, cur, received, readErrs, buff, packets, pkt, workerTokens, workers>>
fnVars == <<fn>>

EmptyLog == [tried |-> {}, resolved |-> {}, queried |-> {}]
\* pc: "idle", "getPeers", "neighbors", "query", "poll", "send", "done";
\* arg: the key passed; ready: dht.Ready as the call read it; key: the
\* normalised key; peers, err: the results; i: the poll counter; todo: the
\* neighbors still to query; used: the components consulted, each with the key
\* it was asked about; sent: the find_node queries issued; neighbors: what
\* GetNeighbors returned; nsent: the number of findNode calls made
IdleFn ==
  [pc |-> "idle", arg |-> <<>>, ready |-> FALSE, key |-> <<>>, peers |-> {},
   err |-> Nil, i |-> 0, todo |-> {}, used |-> {}, sent |-> {},
   neighbors |-> {}, nsent |-> 0]

\* nothing dispatched yet
NoDatagram == [raddr |-> 0, body |-> [kind |-> "none"], hit |-> FALSE]

\* New: the DHT value before Run; packets and workerTokens are made here
PacketsCapMut == PacketJobLimit + 1
PacketsCap == PacketJobLimit
WorkerTokensCapMut == PacketWorkerLimit + 1
WorkerTokensCap == PacketWorkerLimit
\* the component fields init sets
Components ==
  {"conn", "routingTable", "peersManager", "tokenManager", "transactionManager"}
NewTransactionManager == [cursor |-> 0, pending |-> {}]
Init ==
  /\ runPc = "new" /\ joinIdx = 1 /\ joinLog = EmptyLog /\ joined = FALSE
  /\ built = {} /\ routingTable = {} /\ peersManager = {} /\ tokenManager = {}
  /\ transactionManager = NewTransactionManager /\ sweeps = {}
  /\ Ready = FALSE
  /\ listenPc = "off" /\ cur = Nil /\ received = 0 /\ readErrs = 0 /\ buff = 0
  /\ packets = <<>> /\ pkt = Nil /\ workerTokens = 0 /\ workers = {}
  /\ freshTasks = 0
  /\ fn = IdleFn
  /\ last = NoDatagram

\* ---------------------------------------------------------------- components
\* The id space as numbers, 0 .. MaxID; a node is known by its id, and the
\* remote endpoints are nodes of this space.
MaxID == 2 ^ IDBits - 1
\* the local node's id
LocalID == 0
NodeIDs == (0 .. MaxID) \ {LocalID}
\* newRoutingTable(dht.K, dht): the bucket size, and one bucket for the whole
\* id space
BucketSizeMut == K + 1
BucketSize == K
NewRoutingTable == {[lo |-> 0, hi |-> MaxID, nodes |-> {}]}
\* the nodes the table holds
rtNodes(rt) == UNION {b.nodes : b \in rt}
\* routingTable.Len
rtLen == Cardinality(rtNodes(routingTable))
\* routingTable.GetNeighbors(target, size): up to size nodes of the table
GetNeighbors(rt, size) ==
  LET all == rtNodes(rt) IN
  {s \in SUBSET all : Cardinality(s) = IF Cardinality(all) < size THEN Cardinality(all) ELSE size}
\* the bucket whose range holds the id
BucketOf(rt, id) == CHOOSE b \in rt : b.lo <= id /\ id <= b.hi
\* the bucket that owns the local id's range
Owns(b) == b.lo <= LocalID /\ LocalID <= b.hi
\* a bucket cut in two along the midpoint of its range
Split(b) ==
  LET mid == (b.lo + b.hi) \div 2 IN
  {[lo |-> b.lo, hi |-> mid, nodes |-> {n \in b.nodes : n <= mid}],
   [lo |-> mid + 1, hi |-> b.hi, nodes |-> {n \in b.nodes : n > mid}]}
\* routingTable insert of a node: present already, or appended if its bucket
\* has room; a full bucket that owns the local id is split and the insert
\* retried; into any other full bucket the insert is dropped
RECURSIVE rtInsert(_, _)
rtInsert(rt, no) ==
  LET b == BucketOf(rt, no) IN
  IF no \in b.nodes THEN rt
  ELSE IF Cardinality(b.nodes) < BucketSize
       THEN (rt \ {b}) \cup {[b EXCEPT !.nodes = @ \cup {no}]}
  ELSE IF Owns(b) /\ b.lo < b.hi THEN rtInsert((rt \ {b}) \cup Split(b), no)
  ELSE rt
\* routingTable remove of a node
rtRemove(rt, no) == {[b EXCEPT !.nodes = @ \ {no}] : b \in rt}
\* transactionManager.len
tmLen == Cardinality(transactionManager.pending)
\* transactionManager.findNode(no, target): next id, record the transaction,
\* send the query a first time
tmFindNode(tm, no, target) ==
  LET id == (tm.cursor + 1) % MaxTransactionCursor IN
  [cursor |-> id,
   pending |-> {t \in tm.pending : t.id # id}
                 \cup {[id |-> id, to |-> no, target |-> target, tries |-> 1]}]
\* peersManager.GetPeers(key, size): up to size of the peers stored for key
PeersOf(pm, key) == {e.peer : e \in {x \in pm : x.key = key}}
GetPeers(pm, key, size) ==
  LET all == PeersOf(pm, key) IN
  {s \in SUBSET all : Cardinality(s) = IF Cardinality(all) < size THEN Cardinality(all) ELSE size}
\* peersManager store: idempotent add
pmStore(pm, key, peer) == pm \cup {[key |-> key, peer |-> peer]}

\* transactionManager.findNode to every node of a set
RECURSIVE tmFindNodeAll(_, _, _)
tmFindNodeAll(tm, nodes, target) ==
  IF nodes = {} THEN tm
  ELSE LET no == CHOOSE n \in nodes : TRUE IN
       tmFindNodeAll(tmFindNode(tm, no, target), nodes \ {no}, target)

\* ---------------------------------------------------------------- Run
\* the statements of Run, in order, up to the service loop
RunOrderMut == <<"init", "ready", "listen", "join", "loop">>
RunOrder == <<"init", "listen", "join", "ready", "loop">>
After(pc) == RunOrder[(CHOOSE i \in 1 .. Len(RunOrder) : RunOrder[i] = pc) + 1]

RunStart ==
  /\ runPc = "new"
  /\ runPc' = RunOrder[1]
  /\ UNCHANGED <<joinIdx, joinLog, joined, Ready, freshTasks>>
  /\ UNCHANGED <<dhtVars, netVars, fnVars>>
  /\ UNCHANGED last

\* `go dht.transactionManager.run()`, `go dht.tokenManager.clear()`
InitSweepsMut == {"tokenManager.clear"}
InitSweeps == {"transactionManager.run", "tokenManager.clear"}
\* init: bind the socket, construct the components, start the two sweeps
RunInit ==
  /\ runPc = "init"
  /\ built' = Components
  /\ routingTable' = NewRoutingTable
  /\ peersManager' = {}
  /\ tokenManager' = {}
  /\ transactionManager' = NewTransactionManager
  /\ sweeps' = InitSweeps
  /\ runPc' = After("init")
  /\ UNCHANGED <<joinIdx, joinLog, joined, Ready, freshTasks>>
  /\ UNCHANGED <<netVars, fnVars>>
  /\ UNCHANGED last

\* init: net.ListenPacket fails and init panics
RunInitPanic ==
  /\ runPc = "init"
  /\ runPc' = "panic"
  /\ UNCHANGED <<joinIdx, joinLog, joined, Ready, freshTasks>>
  /\ UNCHANGED <<dhtVars, netVars, fnVars>>
  /\ UNCHANGED last

\* listen: start the socket-read task
RunListen ==
  /\ runPc = "listen"
  /\ listenPc' = "read"
  /\ runPc' = After("listen")
  /\ UNCHANGED <<joinIdx, joinLog, joined, Ready, freshTasks>>
  /\ UNCHANGED <<cur, received, readErrs, buff, packets, pkt, workerTokens, workers>>
  /\ UNCHANGED <<dhtVars, fnVars>>
  /\ UNCHANGED last

\* join, one address of PrimeNodes: resolve it; skip it on failure, else
\* send find_node for the local id to a node that has only an address
JoinSkipMut(ok) == FALSE
JoinSkip(ok) == ~ok
JoinStep ==
  /\ runPc \in {"join", "rejoin"}
  /\ joinIdx <= NumPrimeNodes
  /\ \E ok \in BOOLEAN :
       /\ joinLog' =
            [tried |-> joinLog.tried \cup {joinIdx},
             resolved |-> IF ok THEN joinLog.resolved \cup {joinIdx} ELSE joinLog.resolved,
             queried |-> IF JoinSkip(ok) THEN joinLog.queried
                         ELSE joinLog.queried \cup {joinIdx}]
       /\ transactionManager' =
            IF JoinSkip(ok) THEN transactionManager
            ELSE tmFindNode(transactionManager, PrimeNodes[joinIdx], SelfID)
  /\ joinIdx' = joinIdx + 1
  /\ UNCHANGED <<runPc, joined, Ready, freshTasks>>
  /\ UNCHANGED <<built, routingTable, peersManager, tokenManager, sweeps>>
  /\ UNCHANGED <<netVars, fnVars>>
  /\ UNCHANGED last

\* join returns: to Run's next statement, or to the service loop
JoinDone ==
  /\ runPc \in {"join", "rejoin"}
  /\ joinIdx > NumPrimeNodes
  /\ joined' = TRUE
  /\ joinIdx' = 1
  /\ runPc' = IF runPc = "join" THEN After("join") ELSE "loop"
  /\ UNCHANGED <<joinLog, Ready, freshTasks>>
  /\ UNCHANGED <<dhtVars, netVars, fnVars>>
  /\ UNCHANGED last

\* dht.Ready = true
RunReady ==
  /\ runPc = "ready"
  /\ Ready' = TRUE
  /\ runPc' = After("ready")
  /\ UNCHANGED <<joinIdx, joinLog, joined, freshTasks>>
  /\ UNCHANGED <<dhtVars, netVars, fnVars>>
  /\ UNCHANGED last

\* the select's packet case: pkt = <-dht.packets
\* `case pkt = <-dht.packets`: the receive takes the packet off the channel
RecvRestMut(q) == q
RecvRest(q) == Tail(q)
RunRecv ==
  /\ runPc = "loop"
  /\ packets # <<>>
  /\ pkt' = Head(packets)
  /\ packets' = RecvRest(packets)
  /\ runPc' = "handle"
  /\ UNCHANGED <<joinIdx, joinLog, joined, Ready, freshTasks>>
  /\ UNCHANGED <<listenPc, cur, received, readErrs, buff, workerTokens, workers>>
  /\ UNCHANGED <<dhtVars, fnVars>>
  /\ UNCHANGED last

\* the select's tick case: what one maintenance tick does
TickBranchMut(rtlen, tmlen) ==
  IF rtlen = 0 THEN "join" ELSE IF tmlen # 0 THEN "fresh" ELSE "none"
TickBranch(rtlen, tmlen) ==
  IF rtlen = 0 THEN "join" ELSE IF tmlen = 0 THEN "fresh" ELSE "none"

RunTickJoin ==
  /\ runPc = "loop"
  /\ TickBranch(rtLen, tmLen) = "join"
  /\ runPc' = "rejoin"
  /\ joinIdx' = 1
  /\ joinLog' = EmptyLog
  /\ UNCHANGED <<joined, Ready, freshTasks>>
  /\ UNCHANGED <<dhtVars, netVars, fnVars>>
  /\ UNCHANGED last

RunTickFresh ==
  /\ runPc = "loop"
  /\ TickBranch(rtLen, tmLen) = "fresh"
  /\ freshTasks < MaxFresh
  /\ freshTasks' = freshTasks + 1
  /\ UNCHANGED <<runPc, joinIdx, joinLog, joined, Ready>>
  /\ UNCHANGED <<dhtVars, netVars, fnVars>>
  /\ UNCHANGED last

RunTickNone ==
  /\ runPc = "loop"
  /\ TickBranch(rtLen, tmLen) = "none"
  /\ UNCHANGED <<runPc, joinIdx, joinLog, joined, Ready, freshTasks>>
  /\ UNCHANGED <<dhtVars, netVars, fnVars>>
  /\ UNCHANGED last

\* routingTable.Fresh, run as its own task: find_node towards a random id
\* for the nodes of the stale buckets
FreshRun ==
  /\ freshTasks > 0
  /\ freshTasks' = freshTasks - 1
  /\ \E stale \in SUBSET rtNodes(routingTable) :
       transactionManager' = tmFindNodeAll(transactionManager, stale, RandomID)
  /\ UNCHANGED <<runPc, joinIdx, joinLog, joined, Ready>>
  /\ UNCHANGED <<built, routingTable, peersManager, tokenManager, sweeps>>
  /\ UNCHANGED <<netVars, fnVars>>
  /\ UNCHANGED last

\* ---------------------------------------------------------------- listen
\* the number of the ReadFromUDP call that returns next
ReadNo == received + readErrs + 1
\* ReadFromUDP returns a datagram from raddr; its bytes are now in buff, and
\* the packet to enqueue is the slice buff[:n] with raddr
ListenRead ==
  /\ listenPc = "read"
  /\ received < MaxDatagrams
  /\ \E a \in Addrs : cur' = [seq |-> ReadNo, raddr |-> a]
  /\ received' = received + 1
  /\ buff' = ReadNo
  /\ listenPc' = "send"
  /\ UNCHANGED <<readErrs, packets, pkt, workerTokens, workers>>
  /\ UNCHANGED <<dhtVars, runVars, fnVars>>
  /\ UNCHANGED last

\* ReadFromUDP returns an error: `continue`, back to the read
OnReadErrMut == "stopped"
OnReadErr == "read"
ListenReadErr ==
  /\ listenPc = "read"
  /\ readErrs < MaxReadErrs
  /\ readErrs' = readErrs + 1
  /\ listenPc' = OnReadErr
  /\ UNCHANGED <<cur, received, buff, packets, pkt, workerTokens, workers>>
  /\ UNCHANGED <<dhtVars, runVars, fnVars>>
  /\ UNCHANGED last

\* packet{buff[:n], raddr}: the packet's data is a slice of the one buffer
\* every read fills, so what a packet shows is what the buffer holds now: the
\* bytes of the read whose number is in buff. The address is the packet's own.
Data(p) == buff
\* dht.packets <- packet{...}: blocks while the channel is full
ListenSend ==
  /\ listenPc = "send"
  /\ Len(packets) < PacketsCap
  /\ packets' = Append(packets, cur)
  /\ cur' = Nil
  /\ listenPc' = "read"
  /\ UNCHANGED <<received, readErrs, buff, pkt, workerTokens, workers>>
  /\ UNCHANGED <<dhtVars, runVars, fnVars>>
  /\ UNCHANGED last

\* ---------------------------------------------------------------- handle
\* handle(dht, pkt): take a worker token and decode and dispatch the packet
\* in a worker of its own
HandleSpawn ==
  /\ runPc = "handle"
  /\ workerTokens < WorkerTokensCap
  /\ workerTokens' = workerTokens + 1
  /\ workers' = workers \cup {pkt}
  /\ pkt' = Nil
  /\ runPc' = "loop"
  /\ UNCHANGED <<joinIdx, joinLog, joined, Ready, freshTasks>>
  /\ UNCHANGED <<listenPc, cur, received, readErrs, buff, packets>>
  /\ UNCHANGED <<dhtVars, fnVars>>
  /\ UNCHANGED last

\* handle(dht, pkt) with every worker token taken: the packet is dropped
\* (or handle waits for a token: HandleSpawn once a worker is done)
HandleDrop ==
  /\ runPc = "handle"
  /\ workerTokens >= WorkerTokensCap
  /\ pkt' = Nil
  /\ runPc' = "loop"
  /\ UNCHANGED <<joinIdx, joinLog, joined, Ready, freshTasks>>
  /\ UNCHANGED <<listenPc, cur, received, readErrs, buff, packets, workerTokens, workers>>
  /\ UNCHANGED <<dhtVars, fnVars>>
  /\ UNCHANGED last

\* what a datagram can decode to
\* a token's value is bound to the address it is issued to
TokenFor(addr) == addr
TokenValues == {TokenFor(a) : a \in Addrs}
Bodies ==
  [kind : {"reply"}, tid : 0 .. MaxTransactionCursor - 1]
    \cup [kind : {"announce_peer"}, key : RawKeys, token : TokenValues]
    \cup {[kind |-> "get_peers"], [kind |-> "ping"], [kind |-> "undecodable"]}

\* transactionManager onReply: the pending transaction with this id, if any
MatchesMut(t, tid) == TRUE
Matches(t, tid) == t.id = tid
Pending(tid) == {t \in transactionManager.pending : Matches(t, tid)}
\* tokenManager issue: a token for the address, not expired
Issue(addr) == [addr |-> addr, value |-> TokenFor(addr), expired |-> FALSE]
\* tokenManager validate: a token of this value was issued to this address and
\* has not expired
ValidateMut(addr, token) ==
  \E tok \in tokenManager : tok.addr = addr /\ tok.value = token
Validate(addr, token) ==
  \E tok \in tokenManager : tok.addr = addr /\ tok.value = token /\ ~tok.expired
\* peersManager has room for the pair (a cap on what is announced)
CanStore(key, peer) ==
  \/ [key |-> key, peer |-> peer] \in peersManager
  \/ Cardinality(peersManager) < MaxStored

\* decode and dispatch of a datagram from raddr
\*  - a reply (to find_node, the one query this node sends) completes its
\*    pending transaction and the responding node enters the Routing Table;
\*    a reply that matches no pending transaction is dropped
\*  - announce_peer with a valid token stores the peer, else is rejected
\*  - get_peers issues a token to the sender
\*  - ping, or an undecodable packet: no component changes
Dispatch(raddr, body) ==
  CASE body.kind = "reply" ->
         IF Pending(body.tid) = {}
         THEN UNCHANGED <<routingTable, peersManager, tokenManager, transactionManager>>
         ELSE LET t == CHOOSE x \in Pending(body.tid) : TRUE IN
              /\ transactionManager' =
                   [transactionManager EXCEPT !.pending = @ \ {t}]
              /\ routingTable' = rtInsert(routingTable, raddr)
              /\ UNCHANGED <<peersManager, tokenManager>>
    [] body.kind = "announce_peer" ->
         IF Validate(raddr, body.token)
         THEN /\ CanStore(body.key, raddr)
              /\ peersManager' = pmStore(peersManager, body.key, raddr)
              /\ UNCHANGED <<routingTable, tokenManager, transactionManager>>
         ELSE UNCHANGED <<routingTable, peersManager, tokenManager, transactionManager>>
    [] body.kind = "get_peers" ->
         /\ tokenManager' = tokenManager \cup {Issue(raddr)}
         /\ UNCHANGED <<routingTable, peersManager, transactionManager>>
    [] OTHER ->
         UNCHANGED <<routingTable, peersManager, tokenManager, transactionManager>>

\* a worker decodes and dispatches its packet and gives its token back; the
\* packet's bytes are opaque until here, so they are drawn here
WorkerRun ==
  /\ \E w \in workers, body \in Bodies :
       /\ Dispatch(w.raddr, body)
       /\ workers' = workers \ {w}
  /\ workerTokens' = workerTokens - 1
  /\ UNCHANGED <<built, sweeps>>
  /\ UNCHANGED <<listenPc, cur, received, readErrs, buff, packets, pkt>>
  /\ UNCHANGED <<runVars, fnVars>>
  /\ UNCHANGED last

\* ---------------------------------------------------------------- sweeps
\* transactionManager.run, a query whose timeout passed with no reply: it is
\* sent again while it has attempts left ...
CanRetryMut(t) == t.tries <= Try
CanRetry(t) == t.tries < Try
TmResend ==
  /\ "transactionManager.run" \in sweeps
  /\ \E t \in transactionManager.pending :
       /\ CanRetry(t)
       /\ transactionManager' =
            [transactionManager EXCEPT
               !.pending = (@ \ {t}) \cup {[t EXCEPT !.tries = @ + 1]}]
  /\ UNCHANGED <<built, routingTable, peersManager, tokenManager, sweeps>>
  /\ UNCHANGED <<runVars, netVars, fnVars>>
  /\ UNCHANGED last

\* ... and out of attempts it is dropped; its target node is marked
\* unresponsive and may leave the Routing Table
TmTimeout ==
  /\ "transactionManager.run" \in sweeps
  /\ \E t \in transactionManager.pending, evict \in BOOLEAN :
       /\ ~CanRetry(t)
       /\ transactionManager' = [transactionManager EXCEPT !.pending = @ \ {t}]
       /\ routingTable' = IF evict THEN rtRemove(routingTable, t.to) ELSE routingTable
  /\ UNCHANGED <<built, peersManager, tokenManager, sweeps>>
  /\ UNCHANGED <<runVars, netVars, fnVars>>
  /\ UNCHANGED last

\* TokenExpiredAfter has passed since a token was issued
TokenExpire ==
  /\ \E tok \in tokenManager :
       /\ ~tok.expired
       /\ tokenManager' = (tokenManager \ {tok}) \cup {[tok EXCEPT !.expired = TRUE]}
  /\ UNCHANGED <<built, routingTable, peersManager, transactionManager, sweeps>>
  /\ UNCHANGED <<runVars, netVars, fnVars>>
  /\ UNCHANGED last

\* tokenManager.clear: an expired token is removed
SweptMut(tok) == TRUE
Swept(tok) == tok.expired
TokenClear ==
  /\ "tokenManager.clear" \in sweeps
  /\ \E tok \in tokenManager :
       /\ Swept(tok)
       /\ tokenManager' = tokenManager \ {tok}
  /\ UNCHANGED <<built, routingTable, peersManager, transactionManager, sweeps>>
  /\ UNCHANGED <<runVars, netVars, fnVars>>
  /\ UNCHANGED last

\* ---------------------------------------------------------------- Spec
\* Run, the socket-read task, the workers and the transactions: the worker of
\* a datagram that is a reply, or one that changes no component. (What
\* get_peers and announce_peer do to the Token and Peers Managers is SpecMgr's.)
WorkerReply ==
  /\ WorkerRun
  /\ UNCHANGED <<peersManager, tokenManager>>

Next ==
  \/ RunStart \/ RunInit \/ RunInitPanic \/ RunListen \/ JoinStep \/ JoinDone
  \/ RunReady \/ RunRecv \/ RunTickJoin \/ RunTickFresh \/ RunTickNone \/ FreshRun
  \/ ListenRead \/ ListenSend
  \/ HandleSpawn \/ HandleDrop \/ WorkerReply
  \/ TmResend \/ TmTimeout

Spec == Init /\ [][Next]_vars

\* ---------------------------------------------------------------- FindNode
\* `if !dht.Ready`
NotReadyMut == FALSE
NotReady == ~Ready
\* `if len(peers) != 0` after the first GetPeers
FastPathMut(peers) == FALSE
FastPath(peers) == peers # {}
\* `if len(peers) != 0 || i >= 30`
PollBreakMut(peers, i) == i >= PollLimit
PollBreak(peers, i) == peers # {} \/ i >= PollLimit
\* a key that fails to decode: `return nil, err`
BadKeyMut(key) == FALSE
BadKey(key) == Normalize(key).err # Nil

Called(key) == [IdleFn EXCEPT !.arg = key, !.ready = Ready]

\* FindNode(key) before the node is ready
FindNodeNotReady ==
  /\ fn.pc = "idle"
  /\ NotReady
  /\ \E key \in FindKeys :
       fn' = [Called(key) EXCEPT !.pc = "done", !.err = "dht not ready"]
  /\ UNCHANGED <<dhtVars, runVars, netVars>>
  /\ UNCHANGED last

\* FindNode(key) with a key of twice the identifier length that is not hex
FindNodeBadKey ==
  /\ fn.pc = "idle"
  /\ ~NotReady
  /\ \E key \in FindKeys :
       /\ BadKey(key)
       /\ fn' = [Called(key) EXCEPT !.pc = "done", !.err = Normalize(key).err]
  /\ UNCHANGED <<dhtVars, runVars, netVars>>
  /\ UNCHANGED last

\* FindNode(key): ready, and the key normalised
FindNodeBegin ==
  /\ fn.pc = "idle"
  /\ ~NotReady
  /\ \E key \in FindKeys :
       /\ ~BadKey(key)
       /\ fn' = [Called(key) EXCEPT !.pc = "getPeers", !.key = Normalize(key).key]
  /\ UNCHANGED <<dhtVars, runVars, netVars>>
  /\ UNCHANGED last

\* A step that uses a component is a step of a constructed one (on a nil
\* field the call would panic; no call gets there before dht.Ready is set).
\* peers := dht.peersManager.GetPeers(key, dht.K); return them if there are any
FindNodeGetPeers ==
  /\ fn.pc = "getPeers"
  /\ "peersManager" \in built
  /\ \E ps \in GetPeers(peersManager, fn.key, K) :
       fn' = [fn EXCEPT !.peers = ps,
                        !.used = @ \cup {[c |-> "peersManager", key |-> fn.key]},
                        !.pc = IF FastPath(ps) THEN "done" ELSE "neighbors"]
  /\ UNCHANGED <<dhtVars, runVars, netVars>>
  /\ UNCHANGED last

\* the lookup task: neighbors := dht.routingTable.GetNeighbors(key, dht.K)
FanOutMut == K + 1
FanOut == K
FindNodeNeighbors ==
  /\ fn.pc = "neighbors"
  /\ "routingTable" \in built
  /\ \E ns \in GetNeighbors(routingTable, FanOut) :
       fn' = [fn EXCEPT !.todo = ns,
                        !.neighbors = ns,
                        !.used = @ \cup {[c |-> "routingTable", key |-> fn.key]},
                        !.pc = "query"]
  /\ UNCHANGED <<dhtVars, runVars, netVars>>
  /\ UNCHANGED last

\* dht.transactionManager.findNode(no, key) for one neighbor
FindNodeQuery ==
  /\ fn.pc = "query"
  /\ "transactionManager" \in built
  /\ \E no \in fn.todo :
       /\ transactionManager' = tmFindNode(transactionManager, no, fn.key)
       /\ fn' = [fn EXCEPT !.todo = @ \ {no},
                          !.used = @ \cup {[c |-> "transactionManager", key |-> fn.key]},
                          !.sent = @ \cup {[to |-> no, target |-> fn.key]},
                          !.nsent = @ + 1]
  /\ UNCHANGED <<built, routingTable, peersManager, tokenManager, sweeps>>
  /\ UNCHANGED <<runVars, netVars>>
  /\ UNCHANGED last

\* every neighbor queried: i := 0 and the one-second ticker is started
FindNodeStartPoll ==
  /\ fn.pc = "query"
  /\ fn.todo = {}
  /\ fn' = [fn EXCEPT !.pc = "poll", !.i = 0,
                      !.used = @ \cup {[c |-> "timer", key |-> fn.key]}]
  /\ UNCHANGED <<dhtVars, runVars, netVars>>
  /\ UNCHANGED last

\* one tick: i++, GetPeers again, leave the loop on peers or on the 30th tick
FindNodePoll ==
  /\ fn.pc = "poll"
  /\ "peersManager" \in built
  /\ \E ps \in GetPeers(peersManager, fn.key, K) :
       fn' = [fn EXCEPT !.i = @ + 1,
                        !.peers = ps,
                        !.used = @ \cup {[c |-> "peersManager", key |-> fn.key]},
                        !.pc = IF PollBreak(ps, fn.i + 1) THEN "send" ELSE "poll"]
  /\ UNCHANGED <<dhtVars, runVars, netVars>>
  /\ UNCHANGED last

\* ch <- struct{}{}; <-ch; return peers, nil
FindNodeReturn ==
  /\ fn.pc = "send"
  /\ fn' = [fn EXCEPT !.pc = "done", !.err = Nil]
  /\ UNCHANGED <<dhtVars, runVars, netVars>>
  /\ UNCHANGED last

FindNodeStep ==
  \/ FindNodeGetPeers \/ FindNodeNeighbors \/ FindNodeQuery
  \/ FindNodeStartPoll \/ FindNodePoll \/ FindNodeReturn

\* the service loop as FindNode meets it: the workers' effects on the two
\* components FindNode reads. A worker stores a peer for a key ...
PeerStored ==
  /\ runPc = "loop"
  /\ \E key \in RawKeys, peer \in Addrs :
       /\ CanStore(key, peer)
       /\ peersManager' = pmStore(peersManager, key, peer)
  /\ UNCHANGED <<built, routingTable, tokenManager, transactionManager, sweeps>>
  /\ UNCHANGED <<runVars, netVars, fnVars>>
  /\ UNCHANGED last

\* ... a node that replied enters the Routing Table ...
NodeInserted ==
  /\ runPc = "loop"
  /\ \E no \in Addrs : routingTable' = rtInsert(routingTable, no)
  /\ UNCHANGED <<built, peersManager, tokenManager, transactionManager, sweeps>>
  /\ UNCHANGED <<runVars, netVars, fnVars>>
  /\ UNCHANGED last

\* ... and an unresponsive node leaves it
NodeRemoved ==
  /\ runPc = "loop"
  /\ \E no \in rtNodes(routingTable) : routingTable' = rtRemove(routingTable, no)
  /\ UNCHANGED <<built, peersManager, tokenManager, transactionManager, sweeps>>
  /\ UNCHANGED <<runVars, netVars, fnVars>>
  /\ UNCHANGED last

NextFind ==
  \/ RunStart \/ RunInit \/ RunInitPanic \/ RunListen \/ JoinStep \/ JoinDone
  \/ RunReady \/ PeerStored \/ NodeInserted \/ NodeRemoved
  \/ FindNodeNotReady \/ FindNodeBadKey \/ FindNodeBegin
  \/ FindNodeGetPeers \/ FindNodeNeighbors \/ FindNodeQuery
  \/ FindNodeStartPoll \/ FindNodePoll \/ FindNodeReturn

SpecFind == Init /\ [][NextFind]_vars

\* the lookup task and its ticker are scheduled: a FindNode step that can be
\* taken is taken
SpecFindFair == SpecFind /\ WF_vars(FindNodeStep)

\* ---------------------------------------------------------------- the managers
\* The four components under the datagrams the workers dispatch and under the
\* two sweeps. A worker's decode and dispatch of one datagram, with the
\* datagram kept for observation: hit says whether a reply found its
\* transaction, or an announce_peer a valid token.
Found(raddr, body) ==
  CASE body.kind = "reply" -> Pending(body.tid) # {}
    [] body.kind = "announce_peer" -> Validate(raddr, body.token)
    [] OTHER -> FALSE
DeliverOf(raddr, body) ==
  /\ Dispatch(raddr, body)
  /\ last' = [raddr |-> raddr, body |-> body, hit |-> Found(raddr, body)]
Deliver ==
  /\ runPc = "loop"
  /\ \E raddr \in Addrs, body \in Bodies : DeliverOf(raddr, body)
  /\ UNCHANGED <<built, sweeps>>
  /\ UNCHANGED <<runVars, netVars, fnVars>>

TmSweep == TmResend \/ TmTimeout

NextMgr ==
  \/ RunStart \/ RunInit \/ RunInitPanic \/ RunListen \/ JoinStep \/ JoinDone
  \/ RunReady \/ Deliver
  \/ TmResend \/ TmTimeout \/ TokenExpire \/ TokenClear

SpecMgr == Init /\ [][NextMgr]_vars

\* The Transaction Manager on its own: the queries of join, the replies to
\* them (or any other datagram that leaves the Token and Peers Managers as
\* they are) and the sweep.
DeliverReply ==
  /\ Deliver
  /\ UNCHANGED <<peersManager, tokenManager>>

NextTm ==
  \/ RunStart \/ RunInit \/ RunInitPanic \/ RunListen \/ JoinStep \/ JoinDone
  \/ RunReady \/ DeliverReply \/ TmResend \/ TmTimeout

SpecTm == Init /\ [][NextTm]_vars

\* the transaction sweep is a task of its own with its own timer: a step it
\* can take, it takes
SpecTmFair == SpecTm /\ WF_vars(TmSweep)

\* ---------------------------------------------------------------- the Routing Table
\* The table on its own, for every node of the id space: the insert that the
\* dispatch of a matched reply from a node asks for, with the node kept for
\* observation, and the removal of a node.
TableInsertOf(no) ==
  /\ routingTable' = rtInsert(routingTable, no)
  /\ last' = [raddr |-> no, body |-> [kind |-> "insert"], hit |-> FALSE]
TableInsert ==
  /\ runPc = "loop"
  /\ \E no \in NodeIDs : TableInsertOf(no)
  /\ UNCHANGED <<built, peersManager, tokenManager, transactionManager, sweeps>>
  /\ UNCHANGED <<runVars, netVars, fnVars>>

NextTable ==
  \/ RunStart \/ RunInit \/ RunInitPanic \/ RunListen \/ JoinStep \/ JoinDone
  \/ RunReady \/ TableInsert \/ NodeRemoved

SpecTable == Init /\ [][NextTable]_vars

\* ---------------------------------------------------------------- the packet path
\* The socket-read task, the queue and the main loop on their own: the worker
\* of a datagram that changes no component (a ping, an undecodable packet, a
\* reply that matches nothing, a rejected announce_peer). Nothing enters the
\* Routing Table, so every maintenance tick runs join inline.
WorkerQuiet ==
  /\ WorkerRun
  /\ UNCHANGED <<routingTable, peersManager, tokenManager, transactionManager>>

NextNet ==
  \/ RunStart \/ RunInit \/ RunInitPanic \/ RunListen \/ JoinStep \/ JoinDone
  \/ RunReady \/ RunRecv
  \/ ListenRead \/ ListenReadErr \/ ListenSend
  \/ HandleSpawn \/ HandleDrop \/ WorkerQuiet

SpecNet == Init /\ [][NextNet]_vars

\* The packet path with the tick that finds the routing table empty and runs
\* join again in the main loop, scheduled fairly: join's steps and the
\* handler's are taken when they can be, the socket-read task's send is taken
\* once the queue has room, and select, which picks among its ready cases at
\* random, does not pass over a packet case that is ready again and again.
RecvStep == runPc' = "handle" /\ RunRecv
HandleStep == runPc' = "loop" /\ (HandleSpawn \/ HandleDrop)
SendStep == listenPc' = "read" /\ ListenSend
JoinRun == JoinStep \/ JoinDone \/ RunReady
NextLive ==
  \/ RunStart \/ RunInit \/ RunInitPanic \/ RunListen \/ JoinStep \/ JoinDone
  \/ RunReady \/ RunRecv \/ RunTickJoin
  \/ ListenRead \/ ListenSend
  \/ HandleSpawn \/ HandleDrop \/ WorkerQuiet

SpecLive == Init /\ [][NextLive]_vars
SpecLiveFair ==
  /\ SpecLive
  /\ WF_<<runPc, joinIdx>>(JoinRun)
  /\ SF_runPc(RecvStep)
  /\ WF_runPc(HandleStep)
  /\ WF_listenPc(SendStep)

\* ---------------------------------------------------------------- FindNode and the loop
\* A FindNode call for a raw key next to the service loop: the datagrams that
\* arrive while the call polls, the main loop that dequeues and handles them,
\* and the workers of get_peers and announce_peer
\* (or of a datagram that changes nothing). No reply is matched here, so the
\* routing table stays empty and the call finds no neighbour to query.
CallRaw ==
  /\ FindNodeBegin
  /\ fn'.arg \in RawKeys
ArriveInWait ==
  /\ fn.pc = "poll"
  /\ ListenRead
WorkerPeer ==
  /\ WorkerRun
  /\ UNCHANGED <<routingTable, transactionManager>>

NextWait ==
  \/ RunStart \/ RunInit \/ RunInitPanic \/ RunListen \/ JoinStep \/ JoinDone
  \/ RunReady \/ RunRecv
  \/ ArriveInWait \/ ListenSend
  \/ HandleSpawn \/ HandleDrop \/ WorkerPeer
  \/ CallRaw \/ FindNodeGetPeers \/ FindNodeNeighbors
  \/ FindNodeStartPoll \/ FindNodePoll \/ FindNodeReturn

SpecWait == Init /\ [][NextWait]_vars

\* ---------------------------------------------------------------- the sweeps and the loop
\* The two sweeps next to the service loop: join leaves transactions pending,
\* the worker of a get_peers issues a token, and the main loop, the
\* socket-read task and the bounded queue go on as they do.
WorkerToken ==
  /\ WorkerRun
  /\ UNCHANGED <<routingTable, peersManager, transactionManager>>

NextSweep ==
  \/ RunStart \/ RunInit \/ RunInitPanic \/ RunListen \/ JoinStep \/ JoinDone
  \/ RunReady \/ RunRecv
  \/ ListenRead \/ ListenSend
  \/ HandleSpawn \/ HandleDrop \/ WorkerToken
  \/ TmResend \/ TmTimeout \/ TokenExpire \/ TokenClear

SpecSweep == Init /\ [][NextSweep]_vars

\* ================================================================ properties
AllPrimes == 1 .. NumPrimeNodes
Constructed ==
  /\ built = Components
  /\ sweeps = {"transactionManager.run", "tokenManager.clear"}
\* a FindNode call is made in this step
CallStep == fn.pc = "idle" /\ fn'.pc # "idle"

\* C1: a FindNode call made while dht.Ready is false ends at once with the
\* error "dht not ready" and no peers: it has consulted no component, sent no
\* query, never polled, and the step changes no component.
C1_NotReadyFailsFast ==
  /\ [](fn.pc # "idle" /\ ~fn.ready =>
          /\ fn.pc = "done" /\ fn.err = "dht not ready" /\ fn.peers = {}
          /\ fn.used = {} /\ fn.sent = {} /\ fn.i = 0)
  /\ [][CallStep /\ ~Ready => fn'.pc = "done" /\ UNCHANGED dhtVars]_vars
C1_Witness ==
  fn.pc = "done" /\ ~fn.ready /\ fn.err = "dht not ready" /\ runPc = "ready"

\* C2: when the first GetPeers of a ready call finds peers stored for the
\* normalised key, the call returns up to K of them with a nil error in that
\* step, having asked the Routing Table nothing, sent no query and never polled.
C2_FastPath ==
  /\ [][fn.pc = "getPeers" /\ fn' # fn /\ PeersOf(peersManager, fn.key) # {} =>
          /\ fn'.pc = "done" /\ fn'.err = Nil
          /\ fn'.peers # {} /\ fn'.peers \in GetPeers(peersManager, fn.key, K)
          /\ fn'.used = {[c |-> "peersManager", key |-> fn.key]}
          /\ fn'.sent = {} /\ fn'.i = 0
          /\ UNCHANGED dhtVars]_vars
  /\ [][fn.pc = "done" => fn' = fn]_vars
C2_Witness ==
  /\ fn.pc = "done" /\ fn.ready /\ fn.err = Nil /\ fn.peers # {}
  /\ fn.i = 0 /\ fn.sent = {} /\ rtLen # 0

PollsOk ==
  /\ fn.i <= 30
  /\ fn.pc = "poll" => fn.peers = {} /\ fn.i < 30
  /\ fn.pc \in {"send", "done"} /\ [c |-> "timer", key |-> fn.key] \in fn.used =>
       /\ fn.i >= 1
       /\ fn.peers # {} \/ fn.i = 30
       /\ fn.pc = "done" => fn.err = Nil
PollStepOk ==
  fn.pc = "poll" /\ fn' # fn =>
    /\ fn'.i = fn.i + 1
    /\ fn'.peers \in GetPeers(peersManager, fn.key, K)
    /\ fn'.pc = IF fn'.peers # {} \/ fn'.i = 30 THEN "send" ELSE "poll"
\* C3: a ready call that misses the fast path terminates: each poll adds one to
\* the counter and reads the Peers Manager once, the loop is left exactly at
\* the first poll that sees peers or at the 30th poll, the call then returns
\* what that poll saw with a nil error, for any number of neighbors.
C3_PollTerminates ==
  /\ []PollsOk
  /\ [][PollStepOk]_vars
  /\ (fn.pc = "neighbors" ~> fn.pc = "done")
C3_Witness ==
  /\ fn.pc = "done" /\ fn.i = 30 /\ fn.peers = {} /\ fn.err = Nil /\ fn.sent = {}

WideBytes == {0, 9, 10, 97, 171, 255}
RoundTrip ==
  \A r \in [1 .. NodeIDLength -> WideBytes] :
    /\ Normalize(HexEncode(r)) = [err |-> Nil, key |-> r]
    /\ Normalize(r) = [err |-> Nil, key |-> r]
\* C4: a call with the hex encoding of a raw key r and a call with r itself
\* both work on the raw key r: the Peers Manager entry read, the target of
\* GetNeighbors and the target of every find_node query are r. The round trip
\* holds for every raw key over a wider byte sample too.
C4_HexSameKey ==
  /\ RoundTrip
  /\ \A r \in RawKeys :
       fn.pc # "idle" /\ fn.ready /\ fn.arg \in {r, HexEncode(r)} =>
         /\ fn.err = Nil /\ fn.key = r
         /\ \A u \in fn.used : u.key = r
         /\ \A q \in fn.sent : q.target = r
C4_Witness ==
  /\ fn.arg = HexEncode(Fill(NodeIDLength, 171)) /\ fn.key = Fill(NodeIDLength, 171)
  /\ fn.sent # {} /\ fn.pc = "poll"

IsHexDigit(c) == c \in (48 .. 57) \cup (97 .. 102) \cup (65 .. 70)
NotHex(key) == Len(key) = 2 * NodeIDLength /\ \E i \in 1 .. Len(key) : ~IsHexDigit(key[i])
\* C5: a ready call with a key of twice the identifier length that is not hex
\* returns the decoding error and no peers, having consulted no component and
\* sent no query, and the step changes no component.
C5_BadHexFails ==
  /\ [](fn.pc # "idle" /\ fn.ready /\ NotHex(fn.arg) =>
          /\ fn.pc = "done" /\ fn.err = "hex" /\ fn.peers = {}
          /\ fn.used = {} /\ fn.sent = {} /\ fn.i = 0)
  /\ [][CallStep /\ Ready /\ NotHex(fn'.arg) => UNCHANGED dhtVars]_vars
C5_Witness ==
  fn.pc = "done" /\ fn.ready /\ fn.err = "hex" /\ peersManager # {} /\ rtLen # 0

\* C6: dht.Ready is true only once init has bound the socket, constructed the
\* four components and started the two sweeps, listen has started the
\* socket-read task, and the first join pass has tried every prime node and
\* sent find_node to each one that resolved.
C6_ReadyAfterInitAndJoin ==
  /\ [](Ready => Constructed /\ listenPc # "off" /\ joined)
  /\ [][~Ready /\ Ready' =>
          /\ joinLog.tried = AllPrimes
          /\ joinLog.queried = joinLog.resolved]_vars
C6_Witness == Ready /\ runPc = "loop" /\ joinLog.queried # {} /\ joinLog.queried # AllPrimes

JoinRerun == runPc = "loop" /\ runPc' = "rejoin"
FreshStarted == freshTasks' > freshTasks
\* C7: a maintenance tick re-runs join inline exactly when the Routing Table
\* is empty, starts a refresh task exactly when the table is not empty and no
\* transaction is outstanding, and otherwise starts neither.
C7_TickTrichotomy ==
  /\ [][JoinRerun => rtLen = 0 /\ joinIdx' = 1 /\ ~FreshStarted]_vars
  /\ [][FreshStarted => runPc = "loop" /\ runPc' = "loop" /\ rtLen # 0 /\ tmLen = 0]_vars
  /\ [](runPc = "loop" /\ rtLen = 0 => ENABLED RunTickJoin /\ ~ENABLED RunTickFresh)
  /\ [](runPc = "loop" /\ rtLen # 0 /\ tmLen = 0 /\ freshTasks < MaxFresh =>
          ENABLED RunTickFresh /\ ~ENABLED RunTickJoin)
  /\ [](runPc = "loop" /\ rtLen # 0 /\ tmLen # 0 =>
          ENABLED RunTickNone /\ ~ENABLED RunTickJoin /\ ~ENABLED RunTickFresh)
C7_Witness == runPc = "loop" /\ freshTasks > 0 /\ rtLen # 0 /\ tmLen = 0

InJoin == runPc \in {"join", "rejoin"}
\* C8: join never fails: each address is tried in turn, one that does not
\* resolve is skipped and the next ones are still tried, and join returns to
\* its caller; while nothing has been heard from the network the Routing
\* Table stays empty, the node still becomes ready, and a tick that finds the
\* table empty runs join again.
C8_UnreachableBootstrap ==
  /\ [](InJoin => (ENABLED JoinStep \/ ENABLED JoinDone) /\ joinLog.queried = joinLog.resolved)
  /\ [][InJoin /\ ~InJoin' =>
          /\ joinLog.tried = AllPrimes
          /\ runPc' = IF runPc = "join" THEN "ready" ELSE "loop"]_vars
  /\ [](runPc = "ready" => ENABLED RunReady)
  /\ [](received = 0 => rtLen = 0)
  /\ [](runPc = "loop" /\ received = 0 => ENABLED RunTickJoin)
C8_Witness ==
  /\ Ready /\ runPc = "rejoin" /\ received = 0 /\ rtLen = 0
  /\ joinIdx > NumPrimeNodes /\ joinLog.resolved # AllPrimes /\ tmLen = 0

QueueFull == listenPc = "send" /\ Len(packets) = PacketJobLimit
\* C9: the packet queue never holds more than PacketJobLimit packets; with the
\* queue full the socket-read task keeps its packet and stays blocked, the
\* queue only shrinks by the main loop's dequeue, and the packet is appended
\* once there is room.
C9_BoundedQueue ==
  /\ [](Len(packets) <= PacketJobLimit)
  /\ [](QueueFull => ~ENABLED ListenSend)
  /\ [][QueueFull =>
          /\ cur' = cur /\ listenPc' = "send"
          /\ packets' # packets =>
               runPc = "loop" /\ packets' = Tail(packets) /\ pkt' = Head(packets)]_vars
  /\ [][listenPc = "send" /\ listenPc' = "read" => packets' = Append(packets, cur)]_vars
C9_Witness == QueueFull /\ runPc = "loop"

\* C10: never more than PacketWorkerLimit packets are being decoded and
\* dispatched at once, and each of them holds one worker token.
C10_BoundedWorkers ==
  /\ Cardinality(workers) <= PacketWorkerLimit
  /\ workerTokens = Cardinality(workers)
C10_Witness ==
  Cardinality(workers) = PacketWorkerLimit /\ runPc = "handle" /\ received > PacketWorkerLimit

ReadFailed == readErrs' > readErrs
\* C11: a failed socket read ends neither the socket-read task nor the
\* service loop: the task is back at its read with nothing enqueued and
\* nothing else changed, the next read can be taken, and the datagram of a
\* read that succeeds after failed ones is enqueued as any other.
C11_ReadErrorContinues ==
  /\ [](listenPc \in {"off", "read", "send"})
  /\ [][ReadFailed =>
          /\ listenPc = "read" /\ listenPc' = "read"
          /\ UNCHANGED <<cur, received, buff, packets, pkt, workerTokens, workers>>
          /\ UNCHANGED <<runVars, dhtVars>>]_vars
  /\ [](listenPc = "read" /\ received < MaxDatagrams => ENABLED ListenRead)
  /\ [][readErrs > 0 /\ listenPc = "send" /\ listenPc' # "send" =>
          listenPc' = "read" /\ packets' = Append(packets, cur)]_vars
C11_Witness ==
  /\ readErrs = MaxReadErrs /\ received = 1 /\ runPc = "loop"
  /\ packets # <<>> /\ Head(packets).seq = MaxReadErrs + 1

TxIds == 0 .. MaxTransactionCursor - 1
IsPending(id) == \E t \in transactionManager.pending : t.id = id
DeliverStep == \E raddr \in Addrs, body \in Bodies : DeliverOf(raddr, body)
\* C12: a query is sent at most Try times: its count starts at one, goes up by
\* one per resend and never passes Try; a transaction that leaves the pending
\* set without a reply has been sent Try times; no two pending transactions
\* share an id; and with the sweep running every pending transaction is
\* removed in the end, reply or no reply.
C12_RetriesThenRemoved ==
  /\ [](\A t \in transactionManager.pending : t.tries >= 1 /\ t.tries <= Try)
  /\ [](\A t, u \in transactionManager.pending : t.id = u.id => t = u)
  /\ [][\A t \in transactionManager.pending, u \in transactionManager'.pending :
          u.id = t.id /\ u.tries # t.tries => u.tries = t.tries + 1 \/ u.tries = 1]_vars
  /\ [][\A t \in transactionManager.pending :
          ~DeliverStep /\ ~IsPending(t.id)' => t.tries = Try]_vars
  /\ \A id \in TxIds : IsPending(id) ~> ~IsPending(id)
C12_Witness ==
  /\ runPc = "loop" /\ joinLog.queried = AllPrimes /\ tmLen = 0 /\ last = NoDatagram

Managers == <<routingTable, peersManager, tokenManager, transactionManager>>
NoneHasId(tid) == \A t \in transactionManager.pending : t.id # tid
\* C13: the dispatch of a reply whose transaction id no pending transaction
\* has changes none of the four components; the dispatch of a reply that
\* matches removes exactly the transaction with that id and touches neither
\* the Peers Manager nor the Token Manager, so that a second reply with the
\* same id matches nothing.
C13_UnmatchedReplyDropped ==
  [][last'.body.kind = "reply" /\ DeliverOf(last'.raddr, last'.body) =>
       LET tid == last'.body.tid IN
       IF NoneHasId(tid)
       THEN UNCHANGED Managers
       ELSE /\ transactionManager'.pending =
                 {t \in transactionManager.pending : t.id # tid}
            /\ transactionManager'.cursor = transactionManager.cursor
            /\ \A t \in transactionManager'.pending : t.id # tid
            /\ UNCHANGED <<peersManager, tokenManager>>]_vars
C13_Witness ==
  /\ last.body.kind = "reply" /\ ~last.hit
  /\ tmLen # 0 /\ rtLen # 0 /\ tokenManager # {} /\ peersManager # {}

HoldsFresh(addr, value) ==
  [addr |-> addr, value |-> value, expired |-> FALSE] \in tokenManager
\* C14: an announce_peer is accepted exactly when the Token Manager holds a
\* token of that value, issued to the sender and not expired: then the peer is
\* stored under the key; with a token that has expired (swept or not), that
\* was issued to another address, or that was never issued, the announce is
\* rejected and no component changes. A token that has not expired is never
\* removed, and an expired one is never valid again.
C14_TokenValidity ==
  /\ [][last'.body.kind = "announce_peer" /\ DeliverOf(last'.raddr, last'.body) =>
          IF HoldsFresh(last'.raddr, last'.body.token)
          THEN /\ peersManager' =
                    peersManager \cup {[key |-> last'.body.key, peer |-> last'.raddr]}
               /\ UNCHANGED <<routingTable, tokenManager, transactionManager>>
          ELSE UNCHANGED Managers]_vars
  /\ [](\A tok \in tokenManager : tok.value = TokenFor(tok.addr))
  /\ [][\A tok \in tokenManager :
          ~tok.expired =>
            tok \in tokenManager' \/ [tok EXCEPT !.expired = TRUE] \in tokenManager']_vars
C14_Witness ==
  /\ last.body.kind = "announce_peer" /\ ~last.hit /\ peersManager = {}
  /\ last.body.token = TokenFor(last.raddr)
  /\ [addr |-> last.raddr, value |-> last.body.token, expired |-> TRUE] \in tokenManager

Full(b) == Cardinality(b.nodes) = K
Ranges(rt) == {<<b.lo, b.hi>> : b \in rt}
Polling == fn.pc \in {"poll", "send"}
Asked == {q.to : q \in fn.sent}
\* C16: a call that misses the fast path asks the Routing Table once, for at
\* most K nodes (all of them when the table holds fewer); it makes one
\* findNode call per node returned, each for the normalised key; and from the
\* first poll to its return it sends nothing more, whatever enters the
\* Routing Table meanwhile.
C16_SingleFanOut ==
  /\ [](Cardinality(fn.neighbors) <= K /\ Asked \cup fn.todo = fn.neighbors)
  /\ [](fn.nsent = Cardinality(Asked) /\ Asked \cap fn.todo = {})
  /\ [](Polling => Asked = fn.neighbors /\ \A q \in fn.sent : q.target = fn.key)
  /\ [][fn'.neighbors # fn.neighbors =>
          /\ fn.pc = "neighbors" /\ fn.nsent = 0
          /\ fn'.neighbors \subseteq rtNodes(routingTable)
          /\ Cardinality(fn'.neighbors) = K \/ fn'.neighbors = rtNodes(routingTable)]_vars
  /\ [][Polling \/ (fn.pc = "done" /\ fn.ready) =>
          /\ fn'.sent = fn.sent /\ fn'.nsent = fn.nsent /\ fn'.neighbors = fn.neighbors
          /\ transactionManager' = transactionManager]_vars
C16_Witness ==
  /\ fn.pc = "poll" /\ fn.i >= 1 /\ fn.nsent = K
  /\ rtNodes(routingTable) \ fn.neighbors # {}


\* C17: while a FindNode call waits in its poll loop the main loop is not
\* blocked by it: a queued packet can be dequeued, a tick can be serviced and
\* a dequeued packet can be handled, and a step of the call touches neither
\* the main loop nor the packet path nor the stored peers. A peer stored by
\* the handling of a packet that arrived during the wait is seen at the next
\* poll, which leaves the loop with it, and the call returns it.
Waiting == fn.pc = "poll"
TickEnabled == ENABLED RunTickJoin \/ ENABLED RunTickFresh \/ ENABLED RunTickNone
HandleEnabled == ENABLED HandleSpawn \/ ENABLED HandleDrop
C17_WaitDoesNotBlockLoop ==
  /\ [](Waiting /\ runPc = "loop" /\ packets # <<>> => ENABLED RunRecv)
  /\ [](Waiting /\ runPc = "loop" => TickEnabled)
  /\ [](Waiting /\ runPc = "handle" => HandleEnabled)
  /\ [][fn' # fn =>
          UNCHANGED <<runVars, netVars, peersManager, tokenManager, routingTable>>]_vars
  /\ [][Waiting /\ fn' # fn /\ PeersOf(peersManager, fn.key) # {} =>
          /\ fn'.pc = "send"
          /\ fn'.peers # {}
          /\ fn'.peers \subseteq PeersOf(peersManager, fn.key)]_vars
  /\ [][fn.pc = "send" /\ fn'.pc = "done" => fn'.peers = fn.peers]_vars
C17_Witness ==
  /\ fn.pc = "done"
  /\ fn.i >= 2
  /\ fn.peers # {}
  /\ received = 2
  /\ runPc = "loop"


\* C18: init starts both sweeps, each as a task of its own, before Run goes
\* on to listen, to bootstrap or to handle a packet, and nothing else starts
\* or stops one. A sweep that has work can take its step whatever the main
\* loop is doing and however full the packet queue is, and its step leaves
\* the main loop and the packet path as they are.
BothSweeps == {"transactionManager.run", "tokenManager.clear"}
PastInit == runPc \in {"listen", "join", "ready", "loop", "handle"}
C18_SweepsRunFromInit ==
  /\ [](PastInit \/ listenPc # "off" \/ joinLog # EmptyLog \/ received > 0 => sweeps = BothSweeps)
  /\ [][sweeps' # sweeps =>
          /\ runPc = "init"
          /\ sweeps = {}
          /\ sweeps' = BothSweeps]_vars
  /\ [](PastInit /\ transactionManager.pending # {} => ENABLED TmSweep)
  /\ [](PastInit /\ (\E tok \in tokenManager : tok.expired) => ENABLED TokenClear)
  /\ [][TmSweep \/ TokenClear => UNCHANGED <<runVars, netVars, fnVars>>]_vars
C18_Witness ==
  /\ runPc = "loop"
  /\ Len(packets) = PacketsCap
  /\ \E t \in transactionManager.pending : t.tries = Try
  /\ \E tok \in tokenManager : tok.expired


\* C19: once the main loop runs, a packet the socket-read task has enqueued
\* is eventually dequeued by the main loop and handed to the handler, and the
\* socket-read task does not wait on a full queue forever. Only the main
\* loop's receive takes a packet off the queue, and it takes the head off:
\* the queue holds the packets in the order read, none twice, and none that
\* is being handled.
Seqs == 1 .. MaxDatagrams + MaxReadErrs
Queued(s) == \E i \in DOMAIN packets : packets[i].seq = s
Handed(s) == runPc = "handle" /\ pkt.seq = s
InOrder(q) == \A i, j \in DOMAIN q : i < j => q[i].seq < q[j].seq
C19_EnqueuedIsDequeued ==
  /\ \A s \in Seqs : (Ready /\ Queued(s)) ~> Handed(s)
  /\ (Ready /\ listenPc = "send") ~> (listenPc = "read")
  /\ [](InOrder(packets) /\ \A s \in Seqs : Queued(s) => s < ReadNo)
  /\ [](listenPc = "send" => \A s \in Seqs : Queued(s) => s < cur.seq)
  /\ [](runPc = "handle" => \A s \in Seqs : Queued(s) => pkt.seq < s)
  /\ [][packets' # packets =>
          \/ /\ listenPc = "send" /\ listenPc' = "read"
             /\ packets' = Append(packets, cur)
             /\ UNCHANGED <<runPc, pkt>>
          \/ /\ runPc = "loop" /\ runPc' = "handle"
             /\ pkt' = Head(packets)
             /\ packets' = Tail(packets)
             /\ UNCHANGED <<listenPc, cur>>]_vars
C19_Witness ==
  /\ Ready
  /\ Handed(MaxDatagrams)
  /\ workerTokens = WorkerTokensCap
  /\ received = MaxDatagrams


\* C20: a packet the main loop has dequeued, in the handler or in a worker,
\* shows the bytes of the datagram that was read when it was enqueued, and
\* still has that datagram's source address; a later socket read does not
\* change them. (Violated: the packet's data is a slice of the buffer the
\* next read overwrites.)
C20_PacketKeepsItsBytes ==
  /\ runPc = "handle" => Data(pkt) = pkt.seq
  /\ \A w \in workers : Data(w) = w.seq

====
